---- MODULE Spec2Model ----
(***************************************************************************)
(* Model of src/text_ocr.py: one run of main(), from the argument check    *)
(* through generate_image_with_text and extract_text_from_image to the     *)
(* report.  Strings are sequences of characters; a printed line is the     *)
(* sequence of its whitespace-separated words, an interpolated value being *)
(* one element.  The PIL / pytesseract / filesystem collaborators are      *)
(* nondeterministic: each call either returns or raises.                   *)
(***************************************************************************)
EXTENDS Integers, Sequences, FiniteSets, TLC

\* ---------------------------------------------------------------- bounds
MaxLen == 2          \* longest text argument
MaxFileLen == 2      \* longest filename argument
MaxArgs == 3         \* largest number of command-line arguments
MaxOcrLen == 2       \* longest raw recognition result
MaxBearing == 1      \* largest left / top of a measured bounding box
MaxOver == 2         \* measured sizes range over 0..MaxOver and canvas +- MaxOver

\* ------------------------------------------------------ program constants
width == 800
height == 200
EstCharWidth == 10
EstHeight == 20

\* ------------------------------------------------------------- strings
Whitespace == {" "}
TextChars == {" ", "a"}
FileChars == {" ", "f"}

SeqsUpTo(S, n) == UNION {[1..k -> S] : k \in 0..n}

Texts == SeqsUpTo(TextChars, MaxLen)
Filenames == SeqsUpTo(FileChars, MaxFileLen)
OcrOutputs == SeqsUpTo(TextChars, MaxOcrLen)
ProgName == <<"text_ocr.py">>
ExtraArg == <<"a">>

\* sys.argv: the program name followed by 0..MaxArgs arguments
ArgVectors ==
    {<<ProgName>>}
    \cup {<<ProgName, t>> : t \in Texts}
    \cup {<<ProgName, t, f>> : t \in Texts, f \in Filenames}
    \cup UNION {{<<ProgName, t, f>> \o [i \in 1..k |-> ExtraArg] :
                    t \in Texts, f \in Filenames} : k \in 1..(MaxArgs - 2)}

SetMin(S) == CHOOSE m \in S : \A n \in S : m <= n
SetMax(S) == CHOOSE m \in S : \A n \in S : m >= n

\* str.strip(): drop leading and trailing whitespace
Strip(s) ==
    LET keep == {i \in 1..Len(s) : s[i] \notin Whitespace}
    IN  IF keep = {} THEN <<>> ELSE SubSeq(s, SetMin(keep), SetMax(keep))

\* `not s.strip()`
IsBlankNoStrip(s) == s = <<>>
IsBlank(s) == Strip(s) = <<>>

\* `len(sys.argv) != 3`
WrongArgCountLt(av) == Len(av) < 3
WrongArgCount(av) == Len(av) # 3

\* Python `//` with a positive divisor rounds toward minus infinity
TruncDiv(a, b) == IF a >= 0 THEN a \div b ELSE -((-a) \div b)
CeilDiv(a, b) == -((-a) \div b)
FloorDiv(a, b) == a \div b

\* ---------------------------------------------------------- exceptions
Exceptions == {"OSError", "ValueError"}

\* `except (OSError, IOError)` around ImageFont.truetype
CatchesOSError(e) == e = "OSError"

\* `except Exception` of both functions
CatchesOnlyOSError(e) == e = "OSError"
CatchesException(e) == e \in Exceptions

\* `if font:` -- a loaded font object is truthy, None is not
FontTruthyOnlyTrueType(f) == f = "truetype"
FontTruthy(f) == f # "none"

\* `if not generate_image_with_text(...)`
GenFailedNever(r) == FALSE
GenFailed(r) == r = "False"

\* --------------------------------------------------------------- options
None == <<>>
Some(v) == <<v>>

\* ----------------------------------------------------------- the lines
MissingArgsLine == <<"Error:", "Missing", "arguments">>
UsageLine == <<"Usage:", "python", "text_ocr.py", "<text>", "<filename>">>
ExampleLine == <<"Example:", "python", "text_ocr.py", "\"Hello from GitHub Copilot!\"", "test.png">>
TextEmptyLine == <<"Error:", "Text", "cannot", "be", "empty">>
FilenameEmptyLine == <<"Error:", "Filename", "cannot", "be", "empty">>
GenErrorLine(e) == <<"Error", "generating", "image:", e>>
GenFailedLine == <<"Error:", "Failed", "to", "generate", "image">>
NotFoundLine(f) == <<"Error:", "Image", "file", f, "not", "found">>
ExtractErrorLine(e) == <<"Error", "extracting", "text", "from", "image:", e>>
ExtractFailedLine == <<"Error:", "Failed", "to", "extract", "text", "from", "image">>
TracebackLine(e) == <<"Traceback", e>>
GeneratingLine(t) == <<"Generating", "image", "with", "text:", t>>
GeneratedLine(f) == <<"Generated", "image:", f>>
ExtractingLine == <<"Extracting", "text", "using", "OCR...">>
BannerLine == <<"Extracted", "Text:">>
SeparatorLine == <<"----------------">>
ResultLine(s) == <<s>>

\* what main writes to the error stream for a wrong argument count
MissingArgsOutput == <<MissingArgsLine, UsageLine, ExampleLine>>

\* ---------------------------------------------------------------- state
VARIABLES
    sys_argv,      \* the argument vector, program name first
    pc,            \* position of the run
    font,          \* "unset", "truetype", "default" or "none"
    bbox,          \* None or Some([left, top, right, bottom])
    text_width, text_height,
    x, y,          \* the drawing origin
    drawn,         \* None or Some(draw instruction)
    genResult,     \* "unset", "True" or "False"
    extracted,     \* None or Some(string)
    stdout, stderr,
    exitCode,      \* NoExit while running
    uncaught,      \* an exception left main
    raised,        \* exceptions raised by collaborators, in order
    steps,         \* the steps begun, in order
    genCalls, extractCalls, fileWrites, fileOpens

vars == <<sys_argv, pc, font, bbox, text_width, text_height, x, y, drawn,
          genResult, extracted, stdout, stderr, exitCode, uncaught, raised,
          steps, genCalls, extractCalls, fileWrites, fileOpens>>

layoutVars == <<font, bbox, text_width, text_height, x, y>>
countVars == <<genCalls, extractCalls, fileWrites, fileOpens>>

NoExit == -1
text_to_embed == sys_argv[2]
image_filename == sys_argv[3]

Init ==
    /\ sys_argv \in ArgVectors
    /\ pc = "main"
    /\ font = "unset"
    /\ bbox = None
    /\ text_width = 0
    /\ text_height = 0
    /\ x = 0
    /\ y = 0
    /\ drawn = None
    /\ genResult = "unset"
    /\ extracted = None
    /\ stdout = <<>>
    /\ stderr = <<>>
    /\ exitCode = NoExit
    /\ uncaught = FALSE
    /\ raised = <<>>
    /\ steps = <<>>
    /\ genCalls = 0
    /\ extractCalls = 0
    /\ fileWrites = 0
    /\ fileOpens = 0

\* sys.exit(1) after writing `lines` to the error stream
ExitWithError(lines) ==
    /\ stderr' = stderr \o lines
    /\ exitCode' = 1
    /\ pc' = "exited"

\* ------------------------------------------------------------------ main
CheckArgsFail ==
    /\ pc = "main"
    /\ WrongArgCount(sys_argv)
    /\ ExitWithError(MissingArgsOutput)
    /\ steps' = Append(steps, "validate")
    /\ UNCHANGED <<sys_argv, layoutVars, drawn, genResult, extracted, stdout,
                   uncaught, raised, countVars>>

CheckArgsOk ==
    /\ pc = "main"
    /\ ~WrongArgCount(sys_argv)
    /\ pc' = "check_text"
    /\ steps' = Append(steps, "validate")
    /\ UNCHANGED <<sys_argv, layoutVars, drawn, genResult, extracted, stdout,
                   stderr, exitCode, uncaught, raised, countVars>>

ValidateTextFail ==
    /\ pc = "check_text"
    /\ IsBlank(text_to_embed)
    /\ ExitWithError(<<TextEmptyLine>>)
    /\ UNCHANGED <<sys_argv, layoutVars, drawn, genResult, extracted, stdout,
                   uncaught, raised, steps, countVars>>

ValidateTextOk ==
    /\ pc = "check_text"
    /\ ~IsBlank(text_to_embed)
    /\ pc' = "check_filename"
    /\ UNCHANGED <<sys_argv, layoutVars, drawn, genResult, extracted, stdout,
                   stderr, exitCode, uncaught, raised, steps, countVars>>

ValidateFilenameFail ==
    /\ pc = "check_filename"
    /\ IsBlank(image_filename)
    /\ ExitWithError(<<FilenameEmptyLine>>)
    /\ UNCHANGED <<sys_argv, layoutVars, drawn, genResult, extracted, stdout,
                   uncaught, raised, steps, countVars>>

\* prints the progress line and enters generate_image_with_text
ValidateFilenameOk ==
    /\ pc = "check_filename"
    /\ ~IsBlank(image_filename)
    /\ stdout' = Append(stdout, GeneratingLine(text_to_embed))
    /\ genCalls' = genCalls + 1
    /\ pc' = "new_image"
    /\ UNCHANGED <<sys_argv, layoutVars, drawn, genResult, extracted, stderr,
                   exitCode, uncaught, raised, steps, extractCalls,
                   fileWrites, fileOpens>>

\* -------------------------------------------- generate_image_with_text
\* what the `except Exception` handler of generate_image_with_text prints
GenExceptOutputSilent(e) == <<>>
GenExceptOutput(e) == <<GenErrorLine(e)>>

\* an exception e raised inside the function's try block
GenRaise(e) ==
    /\ raised' = Append(raised, e)
    /\ IF CatchesException(e)
       THEN /\ stderr' = stderr \o GenExceptOutput(e)
            /\ genResult' = "False"
            /\ pc' = "gen_ret"
            /\ UNCHANGED <<exitCode, uncaught>>
       ELSE /\ stderr' = Append(stderr, TracebackLine(e))
            /\ uncaught' = TRUE
            /\ exitCode' = 1
            /\ pc' = "exited"
            /\ UNCHANGED genResult

\* Image.new and ImageDraw.Draw
NewImage ==
    /\ pc = "new_image"
    /\ \/ /\ pc' = "load_font"
          /\ UNCHANGED <<genResult, stderr, exitCode, uncaught, raised>>
       \/ \E e \in Exceptions : GenRaise(e)
    /\ UNCHANGED <<sys_argv, layoutVars, drawn, extracted, stdout, steps,
                   countVars>>

\* the nested try blocks that choose the font
LoadFont ==
    /\ pc = "load_font"
    /\ steps' = Append(steps, "layout")
    /\ \/ /\ font' = "truetype"
          /\ pc' = "measure"
          /\ UNCHANGED <<genResult, stderr, exitCode, uncaught, raised>>
       \/ \E e \in Exceptions :
            /\ CatchesOSError(e)
            /\ \/ /\ font' = "default"
                  /\ raised' = Append(raised, e)
               \/ \E e2 \in Exceptions :
                     /\ font' = "none"
                     /\ raised' = raised \o <<e, e2>>
            /\ pc' = "measure"
            /\ UNCHANGED <<genResult, stderr, exitCode, uncaught>>
       \/ \E e \in Exceptions :
            /\ ~CatchesOSError(e)
            /\ GenRaise(e)
            /\ UNCHANGED font
    /\ UNCHANGED <<sys_argv, bbox, text_width, text_height, x, y, drawn,
                   extracted, stdout, countVars>>

\* the bounding boxes draw.textbbox may return
Extents(canvas) ==
    (0..MaxOver) \cup ((canvas - MaxOver)..(canvas + MaxOver))
BBoxes ==
    {<<l, t, l + w, t + h>> :
        l \in 0..MaxBearing, t \in 0..MaxBearing,
        w \in Extents(width), h \in Extents(height)}

\* the size of the text: measured with a font, estimated without one
Measure ==
    /\ pc = "measure"
    /\ IF FontTruthy(font)
       THEN \/ \E b \in BBoxes :
                 /\ bbox' = Some(b)
                 /\ text_width' = b[3] - b[1]
                 /\ text_height' = b[4] - b[2]
                 /\ pc' = "origin"
                 /\ UNCHANGED <<genResult, stderr, exitCode, uncaught,
                                raised>>
            \/ \E e \in Exceptions :
                 /\ GenRaise(e)
                 /\ UNCHANGED <<bbox, text_width, text_height>>
       ELSE /\ text_width' = Len(text_to_embed) * EstCharWidth
            /\ text_height' = EstHeight
            /\ pc' = "origin"
            /\ UNCHANGED <<bbox, genResult, stderr, exitCode, uncaught,
                           raised>>
    /\ UNCHANGED <<sys_argv, font, x, y, drawn, extracted, stdout, steps,
                   countVars>>

\* x = (width - text_width) // 2, y = (height - text_height) // 2
Origin ==
    /\ pc = "origin"
    /\ x' = FloorDiv(width - text_width, 2)
    /\ y' = FloorDiv(height - text_height, 2)
    /\ pc' = "draw"
    /\ UNCHANGED <<sys_argv, font, bbox, text_width, text_height, drawn,
                   genResult, extracted, stdout, stderr, exitCode, uncaught,
                   raised, steps, countVars>>

\* draw.text((x, y), text, fill=text_color, font=font)
Draw ==
    /\ pc = "draw"
    /\ steps' = Append(steps, "draw")
    /\ \/ /\ drawn' = Some([x |-> x, y |-> y, text |-> text_to_embed,
                            font |-> font, fill |-> "black"])
          /\ pc' = "save"
          /\ UNCHANGED <<genResult, stderr, exitCode, uncaught, raised>>
       \/ \E e \in Exceptions :
            /\ GenRaise(e)
            /\ UNCHANGED drawn
    /\ UNCHANGED <<sys_argv, layoutVars, extracted, stdout, countVars>>

\* image.save(filename); return True
Save ==
    /\ pc = "save"
    /\ steps' = Append(steps, "save")
    /\ fileWrites' = fileWrites + 1
    /\ \/ /\ genResult' = "True"
          /\ pc' = "gen_ret"
          /\ UNCHANGED <<stderr, exitCode, uncaught, raised>>
       \/ \E e \in Exceptions : GenRaise(e)
    /\ UNCHANGED <<sys_argv, layoutVars, drawn, extracted, stdout, genCalls,
                   extractCalls, fileOpens>>

\* ------------------------------------------------------ main, continued
MainAfterGenFail ==
    /\ pc = "gen_ret"
    /\ GenFailed(genResult)
    /\ ExitWithError(<<GenFailedLine>>)
    /\ UNCHANGED <<sys_argv, layoutVars, drawn, genResult, extracted, stdout,
                   uncaught, raised, steps, countVars>>

\* prints the two progress lines and enters extract_text_from_image
MainAfterGenOk ==
    /\ pc = "gen_ret"
    /\ ~GenFailed(genResult)
    /\ stdout' = stdout \o <<GeneratedLine(image_filename), ExtractingLine>>
    /\ extractCalls' = extractCalls + 1
    /\ pc' = "isfile"
    /\ UNCHANGED <<sys_argv, layoutVars, drawn, genResult, extracted, stderr,
                   exitCode, uncaught, raised, steps, genCalls, fileWrites,
                   fileOpens>>

\* ---------------------------------------------- extract_text_from_image
\* an exception e raised inside the function's try block
ExtractRaise(e) ==
    /\ raised' = Append(raised, e)
    /\ IF CatchesException(e)
       THEN /\ stderr' = Append(stderr, ExtractErrorLine(e))
            /\ extracted' = None
            /\ pc' = "extract_ret"
            /\ UNCHANGED <<exitCode, uncaught>>
       ELSE /\ stderr' = Append(stderr, TracebackLine(e))
            /\ uncaught' = TRUE
            /\ exitCode' = 1
            /\ pc' = "exited"
            /\ UNCHANGED extracted

\* os.path.isfile(filename)
CheckFile ==
    /\ pc = "isfile"
    /\ \/ /\ pc' = "open"
          /\ UNCHANGED <<stderr, extracted>>
       \/ /\ stderr' = Append(stderr, NotFoundLine(image_filename))
          /\ extracted' = None
          /\ pc' = "extract_ret"
    /\ UNCHANGED <<sys_argv, layoutVars, drawn, genResult, stdout, exitCode,
                   uncaught, raised, steps, countVars>>

\* Image.open(filename)
OpenImage ==
    /\ pc = "open"
    /\ fileOpens' = fileOpens + 1
    /\ \/ /\ pc' = "ocr"
          /\ UNCHANGED <<stderr, extracted, exitCode, uncaught, raised>>
       \/ \E e \in Exceptions : ExtractRaise(e)
    /\ UNCHANGED <<sys_argv, layoutVars, drawn, genResult, stdout, steps,
                   genCalls, extractCalls, fileWrites>>

\* pytesseract.image_to_string(image), then strip() and return
Recognize ==
    /\ pc = "ocr"
    /\ steps' = Append(steps, "recognize")
    /\ \/ \E raw \in OcrOutputs :
            /\ extracted' = Some(Strip(raw))
            /\ pc' = "extract_ret"
            /\ UNCHANGED <<stderr, exitCode, uncaught, raised>>
       \/ \E e \in Exceptions : ExtractRaise(e)
    /\ UNCHANGED <<sys_argv, layoutVars, drawn, genResult, stdout, countVars>>

\* ------------------------------------------------------ main, the report
MainAfterExtractFail ==
    /\ pc = "extract_ret"
    /\ extracted = None
    /\ ExitWithError(<<ExtractFailedLine>>)
    /\ UNCHANGED <<sys_argv, layoutVars, drawn, genResult, extracted, stdout,
                   uncaught, raised, steps, countVars>>

MainAfterExtractOk ==
    /\ pc = "extract_ret"
    /\ extracted # None
    /\ stdout' = stdout \o <<BannerLine, SeparatorLine, ResultLine(extracted[1])>>
    /\ steps' = Append(steps, "report")
    /\ exitCode' = 0
    /\ pc' = "exited"
    /\ UNCHANGED <<sys_argv, layoutVars, drawn, genResult, extracted, stderr,
                   uncaught, raised, countVars>>

Next ==
    \/ CheckArgsFail
    \/ CheckArgsOk
    \/ ValidateTextFail
    \/ ValidateTextOk
    \/ ValidateFilenameFail
    \/ ValidateFilenameOk
    \/ NewImage
    \/ LoadFont
    \/ Measure
    \/ Origin
    \/ Draw
    \/ Save
    \/ MainAfterGenFail
    \/ MainAfterGenOk
    \/ CheckFile
    \/ OpenImage
    \/ Recognize
    \/ MainAfterExtractFail
    \/ MainAfterExtractOk

Spec == Init /\ [][Next]_vars

TypeOK ==
    /\ exitCode \in {NoExit, 0, 1}
    /\ font \in {"unset", "truetype", "default", "none"}
    /\ genResult \in {"unset", "True", "False"}

\* ------------------------------------------------------------ properties
StepOrder == <<"validate", "layout", "draw", "save", "recognize", "report">>
IsPrefix(s, t) == Len(s) <= Len(t) /\ s = SubSeq(t, 1, Len(s))
IsErrorForm(l) == Len(l) >= 2 /\ l[1] = "Error:"
HasBanner == \E i \in 1..Len(stdout) : stdout[i] = BannerLine
HasUsage == \E i \in 1..Len(stderr) : stderr[i] = UsageLine
NoTextDetectedLine == <<"(No", "text", "detected)">>
NothingGenerated ==
    /\ genCalls = 0
    /\ extractCalls = 0
    /\ fileWrites = 0
    /\ fileOpens = 0
    /\ drawn = None
OriginDone == pc = "draw" \/ (Len(steps) >= 3 /\ steps[3] = "draw")
TwoArgs == Len(sys_argv) = 3
BlankText == Strip(sys_argv[2]) = <<>>
BlankFilename == Strip(sys_argv[3]) = <<>>

\* C1: with an argument count other than two the run ends with exit code 1
\* and the usage message on the error stream, and neither
\* generate_image_with_text nor extract_text_from_image is ever called, so
\* no image file is written or opened.
C1_WrongArgCount ==
    ~TwoArgs =>
        /\ NothingGenerated
        /\ pc \in {"main", "exited"}
        /\ pc = "exited" => (exitCode = 1 /\ HasUsage)

C1_Witness ==
    /\ pc = "exited"
    /\ Len(sys_argv) = 4
    /\ exitCode = 1
    /\ HasUsage

\* C2: with two arguments of which the text or the filename is blank after
\* strip(), the run ends with exit code 1 and one "cannot be empty" line,
\* the text being checked before the filename, and nothing is generated.
C2_EmptyArgument ==
    (TwoArgs /\ (BlankText \/ BlankFilename)) =>
        /\ NothingGenerated
        /\ pc \in {"main", "check_text", "check_filename", "exited"}
        /\ pc = "exited" =>
              /\ exitCode = 1
              /\ stderr = <<IF BlankText THEN TextEmptyLine
                                         ELSE FilenameEmptyLine>>
              /\ SubSeq(stderr[1], 3, 5) = <<"cannot", "be", "empty">>

C2_Witness ==
    /\ pc = "exited"
    /\ TwoArgs
    /\ sys_argv[2] # <<>>
    /\ BlankText
    /\ BlankFilename
    /\ stderr = <<TextEmptyLine>>

\* C3: once computed, the origin is the floor of half the free space in each
\* direction; it is negative when the text is larger than the canvas, and
\* the run then stands at the draw step with nothing reported, and the draw
\* instruction carries that origin.
C3_FloorOrigin ==
    OriginDone =>
        /\ x = (width - text_width) \div 2
        /\ y = (height - text_height) \div 2
        /\ text_width > width => x < 0
        /\ text_height > height => y < 0
        /\ pc = "draw" =>
              (stderr = <<>> /\ exitCode = NoExit /\ genResult = "unset")
        /\ drawn # None =>
              (drawn[1].x = (width - text_width) \div 2
                 /\ drawn[1].y = (height - text_height) \div 2)

C3_Witness ==
    /\ drawn # None
    /\ text_width > width
    /\ text_height > height
    /\ drawn[1].x < 0
    /\ drawn[1].y < 0
    /\ fileWrites = 1
    /\ genResult = "True"

\* C4: the origin centres the text within one pixel: the free space left
\* over after doubling the origin is 0 or 1 in each direction, also for text
\* larger than the canvas.
C4_CenteredWithinOne ==
    OriginDone =>
        /\ 0 <= width - text_width - 2 * x
        /\ width - text_width - 2 * x <= 1
        /\ 0 <= height - text_height - 2 * y
        /\ height - text_height - 2 * y <= 1

C4_Witness ==
    /\ OriginDone
    /\ text_width > width
    /\ text_height > height
    /\ width - text_width - 2 * x = 1
    /\ height - text_height - 2 * y = 1

\* C5: after a successful generation, an empty recognition result ends the
\* run with exit code 0, the banner and the separator, and is reported as
\* "(No text detected)".
C5_EmptyResultReported ==
    (pc = "exited" /\ genResult = "True" /\ extracted = Some(<<>>)) =>
        /\ exitCode = 0
        /\ HasBanner
        /\ stdout[Len(stdout) - 1] = SeparatorLine
        /\ Len(stdout[Len(stdout)]) = Len(NoTextDetectedLine)
        /\ stdout[Len(stdout)] = NoTextDetectedLine

\* C6: the steps begun form a prefix of validate, layout, draw, save,
\* recognize, report; each function is called, and the file written and
\* opened, at most once; recognition only follows a generation that returned
\* True, the banner only a recognition that returned a string, and nothing
\* follows a failed step.
C6_LinearOrder ==
    /\ IsPrefix(steps, StepOrder)
    /\ genCalls <= 1 /\ extractCalls <= 1
    /\ fileWrites <= 1 /\ fileOpens <= 1
    /\ fileOpens = 1 => fileWrites = 1
    /\ extractCalls = 1 => genResult = "True"
    /\ HasBanner => (extracted # None /\ extractCalls = 1)
    /\ genResult = "False" =>
          (extractCalls = 0 /\ fileOpens = 0 /\ Len(steps) <= 4)
    /\ (extractCalls = 1 /\ extracted = None) => Len(steps) <= 5
    /\ exitCode = 1 => (pc = "exited" /\ ~HasBanner /\ Len(steps) <= 5)

C6_Witness ==
    /\ pc = "exited"
    /\ exitCode = 0
    /\ steps = StepOrder
    /\ fileWrites = 1
    /\ fileOpens = 1

\* C7 (as claimed): every run that ends with exit code 1 has written exactly
\* one line, of the form "Error: <message>", to the error stream.
C7_ExactlyOneErrorLine ==
    exitCode = 1 => (Len(stderr) = 1 /\ IsErrorForm(stderr[1]))

\* C7 (amended): every run that ends with exit code 1 has written one to
\* three lines to the error stream, the last line written by main for the
\* failure having the form "Error: <message>": three lines (error, usage,
\* example) for a wrong argument count, exactly one for a blank text or
\* filename, and two for a generation or recognition failure, the failing
\* function's own line followed by main's "Error: Failed to ..." line.
C7_ErrorLines ==
    exitCode = 1 =>
        /\ Len(stderr) \in 1..3
        /\ \E i \in 1..Len(stderr) : IsErrorForm(stderr[i])
        /\ Len(stderr) = 3 <=> ~TwoArgs
        /\ ~TwoArgs => stderr = <<MissingArgsLine, UsageLine, ExampleLine>>
        /\ Len(stderr) = 1 <=> (TwoArgs /\ (BlankText \/ BlankFilename))
        /\ Len(stderr) = 1 => IsErrorForm(stderr[1])
        /\ Len(stderr) = 2 <=> (genResult = "False" \/ extractCalls = 1)
        /\ Len(stderr) = 2 =>
              /\ stderr[2] = IF genResult = "False" THEN GenFailedLine
                                                    ELSE ExtractFailedLine
              /\ genResult = "False" =>
                    (Len(stderr[1]) = 4 /\ ~IsErrorForm(stderr[1]))

C7_Witness ==
    /\ exitCode = 1
    /\ genResult = "False"
    /\ Len(stderr) = 2
    /\ stderr[2] = GenFailedLine

FontCaught == IF font = "default" THEN 1 ELSE IF font = "none" THEN 2 ELSE 0

====
